---- MODULE Spec2Model ----
(***************************************************************************)
(* pam-u2f configuration loader (src/cfg.c).                               *)
(*                                                                         *)
(* The module models                                                       *)
(*   - open_safely: the component-by-component walk of an absolute path,   *)
(*     one step per system call group, over an explicit file system of     *)
(*     inodes, directory entries and a descriptor table;                   *)
(*   - cfg_init / cfg_free: the four phases of a load (reset + early       *)
(*     argument scan, file load, full argument scan, exit) and the release *)
(*     of a record, over C strings, a heap and a table of debug sinks.     *)
(*   - slurp, pack and cfg_load_arg on their own (SpecSlurp, SpecPack,     *)
(*     SpecArg): every sequence of read results, every line of a small     *)
(*     alphabet, every token of a pool.                                    *)
(*                                                                         *)
(* C strings are TLA+ strings; s[i] is written Ch(s, i).                   *)
(***************************************************************************)
EXTENDS Integers, Sequences, FiniteSets, TLC

VARIABLES
  fs,      \* the file system: inode metadata, directory entries, link targets
  path,    \* open_safely's argument in the stand-alone walk
  walk,    \* open_safely's locals, its out-parameters and the descriptor table
  moves,   \* number of re-link operations another process has made so far
  argv,    \* the invocation arguments of cfg_init
  cfg,     \* the cfg_t record
  pc,      \* position of the caller / of cfg_init
  ret,     \* value returned by the last cfg_init
  res,     \* resources: heap buffers, debug sinks, configuration descriptors
  fault,   \* environment failure injected into the current cfg_init
  hist,    \* what earlier calls of cfg_init returned
  ctype,   \* what this build's isspace returns for a negative argument
  pk,      \* a line of the file, and what pack made of it
  sl       \* slurp's locals in the stand-alone read

vars == <<fs, path, walk, moves, argv, cfg, pc, ret, res, fault, hist,
          ctype, pk, sl>>

-----------------------------------------------------------------------------
(* PAM status codes (security/pam_modules.h); kept symbolic.               *)

PAM_SUCCESS     == "PAM_SUCCESS"
PAM_SERVICE_ERR == "PAM_SERVICE_ERR"
PAM_SYSTEM_ERR  == "PAM_SYSTEM_ERR"
PAM_BUF_ERR     == "PAM_BUF_ERR"

-----------------------------------------------------------------------------
(* C string helpers.                                                       *)

Ch(s, i) == SubSeq(s, i, i)

From(s, i) == SubSeq(s, i, Len(s))

\* strncmp(s, pre, strlen(pre)) == 0
HasPrefix(s, pre) == Len(s) >= Len(pre) /\ SubSeq(s, 1, Len(pre)) = pre

\* strspn / strcspn: length of the longest prefix made of (resp. free of)
\* the characters of set cs
RECURSIVE strspn(_, _)
strspn(s, cs) ==
  IF s # "" /\ Head(s) \in cs THEN 1 + strspn(Tail(s), cs) ELSE 0

RECURSIVE strcspn(_, _)
strcspn(s, cs) ==
  IF s # "" /\ Head(s) \notin cs THEN 1 + strcspn(Tail(s), cs) ELSE 0

\* strtok_r(str, delim, &saveptr) on the remaining text `s`: skips leading
\* delimiters, returns the token (ok = FALSE for NULL) and the new saveptr.
strtok_r(s, delim) ==
  LET b == From(s, strspn(s, delim) + 1)
      n == strcspn(b, delim)
  IN  IF b = ""
      THEN [ok |-> FALSE, tok |-> "", rest |-> ""]
      ELSE [ok |-> TRUE, tok |-> SubSeq(b, 1, n), rest |-> From(b, n + 2)]

-----------------------------------------------------------------------------
(* The file system seen by open_safely.                                    *)
(*   fs.meta[i]  what fstat reports for inode i: type, owner, whether any  *)
(*               of S_IWGRP | S_IWOTH is set, st_size; plus the bytes a    *)
(*               read returns (data) and a symlink's target inode (-1:     *)
(*               dangling); type "NONE": the inode does not exist.         *)
(*   fs.ent[d][n] the inode directory d's entry n names, -1 when missing.  *)

ROOT_UID  == 0
OTHER_UID == ROOT_UID + 1000

Inodes == 0 .. 6
RootIno == 0
Names == {"etc", "security", "pam_u2f.conf", "lnk"}

NoMeta == [ino |-> -1, type |-> "NONE", uid |-> ROOT_UID, wgo |-> FALSE,
           size |-> 0, data |-> "", target |-> -1]

Lookup(f, dir, name) ==
  IF name \in Names THEN f.ent[dir][name] ELSE -1

\* Symlink resolution of the last component of a lookup: the inode
\* reached, -1 when the chain dangles, -2 when it is too long (ELOOP).
RECURSIVE Follow(_, _, _)
Follow(f, ino, depth) ==
  IF ino = -1 \/ f.meta[ino].type = "NONE" THEN -1
  ELSE IF f.meta[ino].type # "LNK" THEN ino
  ELSE IF depth = 0 THEN -2
  ELSE Follow(f, f.meta[ino].target, depth - 1)

\* openat(parent_fd, name, O_RDONLY | O_CLOEXEC | O_DIRECTORY, 0), line 133:
\* symlinks are followed, the result must be a directory. `err` is an errno
\* injected by the environment ("" for none): EACCES, EMFILE, ...
openat_directory(f, dir, name, err) ==
  LET e == Lookup(f, dir, name)
      t == Follow(f, e, Cardinality(Inodes))
  IN  IF err # "" THEN [ino |-> -1, errno |-> err]
      ELSE IF e = -1 \/ t = -1 THEN [ino |-> -1, errno |-> "ENOENT"]
      ELSE IF t = -2 THEN [ino |-> -1, errno |-> "ELOOP"]
      ELSE IF f.meta[t].type # "DIR" THEN [ino |-> -1, errno |-> "ENOTDIR"]
      ELSE [ino |-> t, errno |-> ""]

\* openat(parent_fd, name, O_RDONLY | O_CLOEXEC | O_NOCTTY | O_NOFOLLOW, 0),
\* line 155: a symlink in the last component is refused with ELOOP.
openat_nofollow(f, dir, name, err) ==
  LET e == Lookup(f, dir, name)
  IN  IF err # "" THEN [ino |-> -1, errno |-> err]
      ELSE IF e = -1 THEN [ino |-> -1, errno |-> "ENOENT"]
      ELSE IF f.meta[e].type = "LNK" THEN [ino |-> -1, errno |-> "ELOOP"]
      ELSE [ino |-> e, errno |-> ""]

-----------------------------------------------------------------------------
(* open_safely (lines 108-184).                                            *)
(*                                                                         *)
(* A walk record holds the locals (r, copy, saveptr, p, c, parent_fd, fd,  *)
(* st), the out-parameters (outfd, outsize), the process's descriptor      *)
(* table (fdtab[fd] = inode and open flag; fd = index) and two             *)
(* observations: badclose (close() of a descriptor that is not open) and   *)
(* used (the descriptors the walk relied on: every parent of an openat and *)
(* the returned handle), checked (descriptor and st_ino of every fstat     *)
(* result that passed the checks of lines 144-148 or 166-170) and faulted  *)
(* (the environment failed a call of this walk).                           *)

\* The build: PAM_U2F_TESTING compiles the ownership checks out (143, 165).
PAM_U2F_TESTING == FALSE

\* The value *outfd holds before open_safely assigns it: the caller's
\* uninitialised local `fd` (line 256).
STALE_FD == 9

WalkStart(pth) ==
  [pc |-> "begin", path |-> pth, r |-> PAM_SERVICE_ERR, copy |-> FALSE,
   saveptr |-> "", p |-> "", c |-> "", parent_fd |-> -1, fd |-> -1,
   st |-> NoMeta, outfd |-> STALE_FD, outsize |-> STALE_FD,
   fdtab |-> <<>>, badclose |-> FALSE, maxopen |-> 0,
   used |-> {}, checked |-> {}, faulted |-> FALSE]

\* The descriptor open("/") returned (line 124): the walk's first.
RootFd(w) == IF w.fdtab = <<>> THEN -1 ELSE CHOOSE d \in DOMAIN w.fdtab : \A e \in DOMAIN w.fdtab : d <= e

OpenFds(w) == {i \in DOMAIN w.fdtab : w.fdtab[i].open}

\* A successful open: the lowest new descriptor number, bound to the inode.
NewFd(w, ino) ==
  LET t == Append(w.fdtab, [ino |-> ino, open |-> TRUE])
  IN  [w EXCEPT !.fdtab = t,
                !.maxopen = IF Cardinality(OpenFds(w)) + 1 > @
                            THEN Cardinality(OpenFds(w)) + 1 ELSE @]

\* close(fd)
close(w, d) ==
  IF d \in DOMAIN w.fdtab /\ w.fdtab[d].open
  THEN [w EXCEPT !.fdtab[d].open = FALSE]
  ELSE [w EXCEPT !.badclose = TRUE]

\* A check made on the path instead of the descriptor, as stat(path) does:
\* the metadata of whatever the component p names now.
stat_by_name(f, w, d) ==
  LET t == Follow(f, Lookup(f, w.fdtab[w.parent_fd].ino, w.p),
                  Cardinality(Inodes))
  IN  IF t < 0 THEN NoMeta ELSE f.meta[t]

\* fstat(fd, &st): the metadata of the object the descriptor is bound to.
fstat(f, w, d) == f.meta[w.fdtab[d].ino]

\* Lines 115-129: the precondition on the path, strdup, the first strtok_r,
\* the open of "/". env is the failure the environment injects into this
\* step: "" (none), "ENOMEM" (strdup) or an errno of open.
os_begin(f, w, env) ==
  LET len == Len(w.path)
      t   == strtok_r(w.path, {"/"})
  IN  IF len = 0 \/ Ch(w.path, 1) # "/" \/ Ch(w.path, len) = "/"
      THEN [w EXCEPT !.pc = "done", !.r = PAM_SERVICE_ERR]
      ELSE IF env = "ENOMEM"
      THEN [w EXCEPT !.pc = "done", !.r = PAM_BUF_ERR]
      ELSE IF env # ""
      THEN [w EXCEPT !.pc = "exit", !.copy = TRUE, !.p = t.tok,
                     !.saveptr = t.rest]
      ELSE [NewFd(w, RootIno) EXCEPT
              !.pc = "walk", !.copy = TRUE, !.p = t.tok, !.saveptr = t.rest,
              !.parent_fd = Len(w.fdtab) + 1,
              !.outfd = -1, !.outsize = 0]

\* os_open with the errno test of lines 135 and 157 dropped: every failed
\* openat is taken for a missing file.
os_open_any_errno(f, w, env) ==
  LET t   == strtok_r(w.saveptr, {"/"})
      dir == w.fdtab[w.parent_fd].ino
      o   == IF t.ok THEN openat_directory(f, dir, w.p, env)
                     ELSE openat_nofollow(f, dir, w.p, env)
      w1  == [w EXCEPT !.c = t.tok, !.saveptr = t.rest,
                       !.used = @ \cup {w.parent_fd}]
  IN  IF o.ino = -1
      THEN [w1 EXCEPT !.pc = "exit", !.fd = -1, !.r = PAM_SUCCESS]
      ELSE [NewFd(w1, o.ino) EXCEPT
              !.fd = Len(w.fdtab) + 1,
              !.pc = IF t.ok THEN "dirstat" ELSE "leafstat"]

\* Lines 131-138 and 155-160: the loop test (the next strtok_r) and the
\* openat of component p, as a directory when a component follows it, as
\* the leaf otherwise.
os_open(f, w, env) ==
  LET t   == strtok_r(w.saveptr, {"/"})
      dir == w.fdtab[w.parent_fd].ino
      o   == IF t.ok THEN openat_directory(f, dir, w.p, env)
                     ELSE openat_nofollow(f, dir, w.p, env)
      w1  == [w EXCEPT !.c = t.tok, !.saveptr = t.rest,
                       !.used = @ \cup {w.parent_fd}]
  IN  IF o.ino = -1
      THEN [w1 EXCEPT !.pc = "exit", !.fd = -1,
                      !.r = IF o.errno = "ENOENT" THEN PAM_SUCCESS ELSE @]
      ELSE [NewFd(w1, o.ino) EXCEPT
              !.fd = Len(w.fdtab) + 1,
              !.pc = IF t.ok THEN "dirstat" ELSE "leafstat"]

\* os_dirstat with the S_IWGRP | S_IWOTH test of line 147 dropped.
os_dirstat_no_wgo(f, w, env) ==
  LET st == fstat(f, w, w.fd)
  IN  IF env # "" THEN [w EXCEPT !.pc = "exit"]
      ELSE IF ~PAM_U2F_TESTING /\ st.uid # ROOT_UID
      THEN [w EXCEPT !.pc = "exit", !.st = st]
      ELSE IF ~(st.type = "DIR" \/ st.type = "LNK")
      THEN [w EXCEPT !.pc = "exit", !.st = st]
      ELSE [close(w, w.parent_fd) EXCEPT
              !.st = st,
              !.checked = @ \cup {[fd |-> w.fd, ino |-> st.ino]},
              !.parent_fd = w.fd, !.p = w.c, !.pc = "walk"]

\* Lines 140-152: fstat of the directory just opened, the checks, and the
\* descriptor taking the place of parent_fd.
os_dirstat(f, w, env) ==
  LET st == fstat(f, w, w.fd)
  IN  IF env # "" THEN [w EXCEPT !.pc = "exit"]
      ELSE IF ~PAM_U2F_TESTING /\ st.uid # ROOT_UID
      THEN [w EXCEPT !.pc = "exit", !.st = st]
      ELSE IF ~(st.type = "DIR" \/ st.type = "LNK") \/ st.wgo
      THEN [w EXCEPT !.pc = "exit", !.st = st]
      ELSE [close(w, w.parent_fd) EXCEPT
              !.st = st,
              !.checked = @ \cup {[fd |-> w.fd, ino |-> st.ino]},
              !.parent_fd = w.fd, !.p = w.c, !.pc = "walk"]

\* os_leafstat without line 174 (fd = -1): the exit label closes the
\* descriptor that is returned.
os_leafstat_keeps_fd(f, w, env) ==
  LET st == fstat(f, w, w.fd)
  IN  IF env # "" THEN [w EXCEPT !.pc = "exit"]
      ELSE IF ~PAM_U2F_TESTING /\ st.uid # ROOT_UID
      THEN [w EXCEPT !.pc = "exit", !.st = st]
      ELSE IF st.type # "REG" \/ st.wgo
      THEN [w EXCEPT !.pc = "exit", !.st = st]
      ELSE [w EXCEPT !.st = st,
                     !.checked = @ \cup {[fd |-> w.fd, ino |-> st.ino]},
                     !.used = @ \cup {w.fd},
                     !.outfd = w.fd, !.outsize = st.size,
                     !.r = PAM_SUCCESS, !.pc = "exit"]

\* os_leafstat with the ownership test of line 166 dropped.
os_leafstat_no_uid(f, w, env) ==
  LET st == fstat(f, w, w.fd)
  IN  IF env # "" THEN [w EXCEPT !.pc = "exit"]
      ELSE IF st.type # "REG" \/ st.wgo
      THEN [w EXCEPT !.pc = "exit", !.st = st]
      ELSE [w EXCEPT !.st = st,
                     !.checked = @ \cup {[fd |-> w.fd, ino |-> st.ino]},
                     !.used = @ \cup {w.fd},
                     !.outfd = w.fd, !.outsize = st.size, !.fd = -1,
                     !.r = PAM_SUCCESS, !.pc = "exit"]

\* Lines 162-175: fstat of the leaf, the checks, and the result.
os_leafstat(f, w, env) ==
  LET st == fstat(f, w, w.fd)
  IN  IF env # "" THEN [w EXCEPT !.pc = "exit"]
      ELSE IF ~PAM_U2F_TESTING /\ st.uid # ROOT_UID
      THEN [w EXCEPT !.pc = "exit", !.st = st]
      ELSE IF st.type # "REG" \/ st.wgo
      THEN [w EXCEPT !.pc = "exit", !.st = st]
      ELSE [w EXCEPT !.st = st,
                     !.checked = @ \cup {[fd |-> w.fd, ino |-> st.ino]},
                     !.used = @ \cup {w.fd},
                     !.outfd = w.fd, !.outsize = st.size, !.fd = -1,
                     !.r = PAM_SUCCESS, !.pc = "exit"]

\* The exit label without lines 180-181: fd is left as it is.
os_exit_parent_only(w) ==
  LET w1 == IF w.parent_fd # -1 THEN close(w, w.parent_fd) ELSE w
  IN  [w1 EXCEPT !.copy = FALSE, !.pc = "done"]

\* Lines 177-183: the exit label.
os_exit(w) ==
  LET w1 == IF w.parent_fd # -1 THEN close(w, w.parent_fd) ELSE w
      w2 == IF w.fd # -1 THEN close(w1, w.fd) ELSE w1
  IN  [w2 EXCEPT !.copy = FALSE, !.pc = "done"]

\* One step of open_safely from w.
os_step(f, w, env) ==
  LET n == CASE w.pc = "begin"    -> os_begin(f, w, env)
             [] w.pc = "walk"     -> os_open(f, w, env)
             [] w.pc = "dirstat"  -> os_dirstat(f, w, env)
             [] w.pc = "leafstat" -> os_leafstat(f, w, env)
             [] w.pc = "exit"     -> os_exit(w)
             [] OTHER             -> w
  IN  [n EXCEPT !.faulted = @ \/ env # ""]

\* The failures the environment can inject into a step.
StepFaults(w) ==
  CASE w.pc = "begin"    -> {"", "ENOMEM", "EMFILE"}
    [] w.pc = "walk"     -> {"", "EACCES"}
    [] w.pc = "dirstat"  -> {"", "EIO"}
    [] w.pc = "leafstat" -> {"", "EIO"}
    [] OTHER             -> {""}

\* open_safely run to completion on an unchanging file system; plan names
\* the step (counted from 1) that fails and with what.
RECURSIVE os_run(_, _, _, _)
os_run(f, w, plan, n) ==
  IF w.pc = "done" THEN w
  ELSE os_run(f, os_step(f, w, IF plan.at = n THEN plan.err ELSE ""), plan, n + 1)

open_safely(f, pth, plan) == os_run(f, WalkStart(pth), plan, 1)

-----------------------------------------------------------------------------
(* slurp (lines 67-97), one step per loop iteration.                       *)
(*                                                                         *)
(* A slurp record holds to_read, the bytes written so far (buf; w is       *)
(* buffer + Len(buf)), the allocation (alloc: size in bytes, 0 for none),  *)
(* the file offset of the descriptor, and the status.                      *)

\* Defined in cfg.h, taken here from the specification: the limit is "a fixed maximum".
CFG_MAX_FILE_SIZE == 4096

SlurpStart(to_read) ==
  [pc |-> "begin", to_read |-> to_read, buf |-> "", alloc |-> 0, off |-> 0,
   r |-> PAM_SUCCESS, dst |-> FALSE, reads |-> 0, overrun |-> FALSE]

\* What the environment does to one step of slurp: err is "" (nothing),
\* "ENOMEM" (malloc returns NULL) or "EIO" (read returns -1); max is the
\* largest number of bytes the read may return (0: no limit).
NoEnv == [err |-> "", max |-> 0]

\* Lines 70-77 with the status of line 75 returned at line 71 too: an
\* oversize file reported like a failed allocation.
sl_begin_limit_buf_err(s, env) ==
  IF s.to_read > CFG_MAX_FILE_SIZE \/ env.err = "ENOMEM"
  THEN [s EXCEPT !.pc = "done", !.r = PAM_BUF_ERR]
  ELSE [s EXCEPT !.pc = "loop", !.alloc = s.to_read + 1]

\* Lines 70-77.
sl_begin(s, env) ==
  IF s.to_read > CFG_MAX_FILE_SIZE
  THEN [s EXCEPT !.pc = "done", !.r = PAM_SERVICE_ERR]
  ELSE IF env.err = "ENOMEM"
  THEN [s EXCEPT !.pc = "done", !.r = PAM_BUF_ERR]
  ELSE [s EXCEPT !.pc = "loop", !.alloc = s.to_read + 1]

\* The loop without the free of line 83: a failed read returns
\* PAM_SYSTEM_ERR and the buffer stays allocated.
sl_loop_keeps_buffer(s, data, env) ==
  LET avail == Len(data) - s.off
      want  == IF env.max = 0 \/ env.max > s.to_read
               THEN s.to_read ELSE env.max
      n     == IF want < avail THEN want ELSE IF avail > 0 THEN avail ELSE 0
  IN  IF s.to_read = 0 \/ (env.err # "EIO" /\ n = 0)
      THEN [s EXCEPT !.pc = "done", !.r = PAM_SUCCESS, !.dst = TRUE,
                     !.reads = IF s.to_read = 0 THEN @ ELSE @ + 1,
                     !.overrun = @ \/ Len(s.buf) + 1 > s.alloc]
      ELSE IF env.err = "EIO"
      THEN [s EXCEPT !.pc = "done", !.r = PAM_SYSTEM_ERR, !.reads = @ + 1]
      ELSE [s EXCEPT !.buf = @ \o SubSeq(data, s.off + 1, s.off + n),
                     !.off = @ + n, !.to_read = @ - n, !.reads = @ + 1,
                     !.overrun = @ \/ Len(s.buf) + n > s.alloc]

\* Lines 78-96: the loop test, one read and its handling, or the end of
\* the loop. data is what the file holds.
sl_loop(s, data, env) ==
  LET avail == Len(data) - s.off
      want  == IF env.max = 0 \/ env.max > s.to_read
               THEN s.to_read ELSE env.max
      n     == IF want < avail THEN want ELSE IF avail > 0 THEN avail ELSE 0
  IN  IF s.to_read = 0 \/ (env.err # "EIO" /\ n = 0)
      THEN [s EXCEPT !.pc = "done", !.r = PAM_SUCCESS, !.dst = TRUE,
                     !.reads = IF s.to_read = 0 THEN @ ELSE @ + 1,
                     !.overrun = @ \/ Len(s.buf) + 1 > s.alloc]
      ELSE IF env.err = "EIO"
      THEN [s EXCEPT !.pc = "done", !.r = PAM_SYSTEM_ERR, !.alloc = 0,
                     !.buf = "", !.reads = @ + 1]
      ELSE [s EXCEPT !.buf = @ \o SubSeq(data, s.off + 1, s.off + n),
                     !.off = @ + n, !.to_read = @ - n, !.reads = @ + 1,
                     !.overrun = @ \/ Len(s.buf) + n > s.alloc]

sl_step(s, data, env) ==
  CASE s.pc = "begin" -> sl_begin(s, env)
    [] s.pc = "loop"  -> sl_loop(s, data, env)
    [] OTHER          -> s

\* slurp run to completion; plan names the step (counted from 1) at which
\* the environment fails and how, and the size limit of every read.
RECURSIVE sl_run(_, _, _, _)
sl_run(s, data, plan, n) ==
  IF s.pc = "done" THEN s
  ELSE sl_run(sl_step(s, data,
                      [err |-> IF plan.at = n THEN plan.err ELSE "",
                       max |-> plan.max]),
              data, plan, n + 1)

slurp(data, to_read, plan) == sl_run(SlurpStart(to_read), data, plan, 1)

-----------------------------------------------------------------------------
(* Pointers, the heap and the debug sinks.                                 *)
(*                                                                         *)
(* A pointer is [kind, id, text]: NULL, a position in argv[id] (kind       *)
(* "argv"), a position in heap buffer id (kind "heap"), or a FILE * of     *)
(* sink id (kind "sink"); text is the C string it points to (the path a    *)
(* sink was opened with).                                                  *)
(* res is the process's resources: the heap buffers allocated and not      *)
(* freed, the sinks opened and not closed, counts of the opens and of the  *)
(* releases, and whether a buffer was freed or a sink closed that was not  *)
(* held (a double free, a double close, or a stale pointer).               *)

NULL == [kind |-> "null", id |-> 0, text |-> ""]

\* Defined in debug.h, taken here from the specification: "a process-wide default
\* sink".
DEFAULT_DEBUG_FILE == [kind |-> "sink", id |-> 0, text |-> "stderr"]

NoResources ==
  [heap |-> {}, sinks |-> {}, mallocs |-> 0, frees |-> 0,
   opens |-> 0, closes |-> 0, badfree |-> FALSE, badclose |-> FALSE]

\* The lowest identifier not in use: a new buffer or FILE may reuse the
\* address of a released one.
FreshId(used) == CHOOSE i \in 1 .. Cardinality(used) + 1 : i \notin used

malloc_id(r) == FreshId(r.heap)

malloc(r) ==
  [r EXCEPT !.heap = @ \cup {malloc_id(r)}, !.mallocs = @ + 1]

\* free(p): nothing for NULL.
free(r, ptr) ==
  IF ptr.kind = "null" THEN r
  ELSE IF ptr.kind = "heap" /\ ptr.id \in r.heap
  THEN [r EXCEPT !.heap = @ \ {ptr.id}, !.frees = @ + 1]
  ELSE [r EXCEPT !.badfree = TRUE]

\* debug_open(path): a new sink (defined in debug.c, taken here from the
\* specification: "open(path) -> handle").
debug_open_id(r) == FreshId(r.sinks)

debug_open(r, pth) ==
  [r EXCEPT !.sinks = @ \cup {debug_open_id(r)}, !.opens = @ + 1]

\* debug_close(handle): closes the sink; the default sink is not closed.
debug_close(r, ptr) ==
  IF ptr = DEFAULT_DEBUG_FILE \/ ptr.kind = "null" THEN r
  ELSE IF ptr.kind = "sink" /\ ptr.id \in r.sinks
  THEN [r EXCEPT !.sinks = @ \ {ptr.id}, !.closes = @ + 1]
  ELSE [r EXCEPT !.badclose = TRUE]

-----------------------------------------------------------------------------
(* sscanf conversions (lines 26, 44, 46, 48).                              *)

\* isspace in the C locale ("\v" has no TLA+ literal).
Space == {" ", "\t", "\n", "\r", "\f"}

Digits == "0123456789"

DigitVal(c) == (CHOOSE i \in 1 .. 10 : Ch(Digits, i) = c) - 1

IsDigit(c) == \E i \in 1 .. 10 : Ch(Digits, i) = c

RECURSIVE DigitsValue(_, _)
DigitsValue(s, acc) ==
  IF s # "" /\ IsDigit(Head(s))
  THEN DigitsValue(Tail(s), acc * 10 + DigitVal(Head(s)))
  ELSE acc

\* The integer a %d or %u conversion reads at the start of s: white space
\* is skipped, a sign is optional, at least one digit must follow. ok =
\* FALSE: a matching failure, nothing is assigned.
ScanInteger(s) ==
  LET b    == From(s, strspn(s, Space) + 1)
      sign == IF b # "" /\ Head(b) \in {"+", "-"} THEN Head(b) ELSE ""
      d    == IF sign = "" THEN b ELSE Tail(b)
      v    == DigitsValue(d, 0)
  IN  IF d = "" \/ ~IsDigit(Head(d)) THEN [ok |-> FALSE, val |-> 0]
      ELSE [ok |-> TRUE, val |-> IF sign = "-" THEN 0 - v ELSE v]

\* %d that stores 0 when nothing matches.
scan_d_clobbers(s, old) == ScanInteger(s).val

\* %d into an int.
scan_d(s, old) ==
  LET n == ScanInteger(s) IN IF n.ok THEN n.val ELSE old

\* %u into an unsigned. The unsigned is held as its 32-bit pattern read
\* as a signed integer (the integers of the model are 32 bits wide): the
\* pattern of -1 is that of UINT_MAX, the value a negative input wraps to.
scan_u(s, old) ==
  LET n == ScanInteger(s) IN IF n.ok THEN n.val ELSE old

-----------------------------------------------------------------------------
(* cfg_t and the argument interpreter (lines 15-65).                       *)
(* A machine state m is [cfg, res]: the record and the resources.          *)

ResetRecord ==
  [max_devs |-> 0, manual |-> 0, debug |-> 0, nouserok |-> 0,
   openasuser |-> 0, alwaysok |-> 0, interactive |-> 0, cue |-> 0,
   nodetect |-> 0, expand |-> 0, sshformat |-> 0,
   userpresence |-> -1, userverification |-> -1, pinverification |-> -1,
   auth_file |-> NULL, authpending_file |-> NULL, origin |-> NULL,
   appid |-> NULL, prompt |-> NULL, cue_prompt |-> NULL,
   debug_file |-> DEFAULT_DEBUG_FILE, defaults_buffer |-> NULL]

\* cfg_reset (lines 289-295): memset and the four defaults.
cfg_reset(c) == ResetRecord

\* arg + n
Plus(arg, n) == [arg EXCEPT !.text = From(arg.text, n + 1)]

\* cfg_load_arg_debug with line 16 comparing the first five characters
\* only, as lines 18 and 25 compare a prefix.
cfg_load_arg_debug_prefix(m, arg) ==
  IF HasPrefix(arg.text, "debug_file=")
  THEN LET r1 == debug_close(m.res, m.cfg.debug_file)
       IN  [m EXCEPT
              !.res = debug_open(r1, From(arg.text, Len("debug_file=") + 1)),
              !.cfg.debug_file =
                 [kind |-> "sink", id |-> debug_open_id(r1),
                  text |-> From(arg.text, Len("debug_file=") + 1)]]
  ELSE IF HasPrefix(arg.text, "debug") THEN [m EXCEPT !.cfg.debug = 1]
  ELSE m

\* cfg_load_arg_debug (lines 15-22).
cfg_load_arg_debug(m, arg) ==
  IF arg.text = "debug" THEN [m EXCEPT !.cfg.debug = 1]
  ELSE IF HasPrefix(arg.text, "debug_file=")
  THEN LET r1 == debug_close(m.res, m.cfg.debug_file)
       IN  [m EXCEPT
              !.res = debug_open(r1, From(arg.text, Len("debug_file=") + 1)),
              !.cfg.debug_file =
                 [kind |-> "sink", id |-> debug_open_id(r1),
                  text |-> From(arg.text, Len("debug_file=") + 1)]]
  ELSE m

\* cfg_load_arg (lines 24-65).
cfg_load_arg(m, arg) ==
  LET a == arg.text
  IN  IF HasPrefix(a, "max_devices=")
      THEN [m EXCEPT !.cfg.max_devs = scan_u(From(a, 13), @)]
      ELSE IF a = "manual" THEN [m EXCEPT !.cfg.manual = 1]
      ELSE IF a = "nouserok" THEN [m EXCEPT !.cfg.nouserok = 1]
      ELSE IF a = "openasuser" THEN [m EXCEPT !.cfg.openasuser = 1]
      ELSE IF a = "alwaysok" THEN [m EXCEPT !.cfg.alwaysok = 1]
      ELSE IF a = "interactive" THEN [m EXCEPT !.cfg.interactive = 1]
      ELSE IF a = "cue" THEN [m EXCEPT !.cfg.cue = 1]
      ELSE IF a = "nodetect" THEN [m EXCEPT !.cfg.nodetect = 1]
      ELSE IF a = "expand" THEN [m EXCEPT !.cfg.expand = 1]
      ELSE IF HasPrefix(a, "userpresence=")
      THEN [m EXCEPT !.cfg.userpresence = scan_d(From(a, 14), @)]
      ELSE IF HasPrefix(a, "userverification=")
      THEN [m EXCEPT !.cfg.userverification = scan_d(From(a, 18), @)]
      ELSE IF HasPrefix(a, "pinverification=")
      THEN [m EXCEPT !.cfg.pinverification = scan_d(From(a, 17), @)]
      ELSE IF HasPrefix(a, "authfile=")
      THEN [m EXCEPT !.cfg.auth_file = Plus(arg, 9)]
      ELSE IF a = "sshformat" THEN [m EXCEPT !.cfg.sshformat = 1]
      ELSE IF HasPrefix(a, "authpending_file=")
      THEN [m EXCEPT !.cfg.authpending_file = Plus(arg, 17)]
      ELSE IF HasPrefix(a, "origin=")
      THEN [m EXCEPT !.cfg.origin = Plus(arg, 7)]
      ELSE IF HasPrefix(a, "appid=")
      THEN [m EXCEPT !.cfg.appid = Plus(arg, 6)]
      ELSE IF HasPrefix(a, "prompt=")
      THEN [m EXCEPT !.cfg.prompt = Plus(arg, 7)]
      ELSE IF HasPrefix(a, "cue_prompt=")
      THEN [m EXCEPT !.cfg.cue_prompt = Plus(arg, 11)]
      ELSE cfg_load_arg_debug(m, arg)

-----------------------------------------------------------------------------
(* The configuration file's text (lines 186-253).                          *)

\* ltrim (lines 186-190)
ltrim(s) == From(s, strspn(s, Space) + 1)

\* A byte above 0x7f, as UTF-8 text holds them. Strings here are ASCII:
\* "@" stands for such a byte and is used for nothing else.
HighBytes == {"@"}

\* isspace(s[l - 1]) of line 197: the argument is a plain char, so a byte
\* above 0x7f is a negative int where char is signed, outside what isspace
\* is defined for; the result is then what the build's table holds there
\* (ctype). Line 187 converts to unsigned char first and is not affected.
isspace_char(c) == c \in Space \/ (c \in HighBytes /\ ctype)

\* rtrim (lines 192-201)
RECURSIVE rtrim(_)
rtrim(s) ==
  IF Len(s) > 0 /\ isspace_char(Ch(s, Len(s)))
  THEN rtrim(SubSeq(s, 1, Len(s) - 1))
  ELSE s

\* strchr(s, c): the offset of the first c in s, -1 for NULL.
strchr(s, c) == IF strcspn(s, {c}) = Len(s) THEN -1 ELSE strcspn(s, {c})

\* pack (lines 212-233): the C string the result points to.
pack(line) ==
  LET s0 == SubSeq(line, 1, strcspn(line, {"#"}))
      s1 == ltrim(s0)
      v  == strchr(s1, "=")
  IN  IF v = -1 THEN rtrim(s1)
      ELSE LET val == ltrim(rtrim(From(s1, v + 2)))
               key == rtrim(SubSeq(s1, 1, v))
           IN  key \o "=" \o val

\* cfg_load_buffer (lines 235-253); buf is the pointer to the buffer, rest
\* the text strtok_r has not consumed yet.
RECURSIVE cfg_load_lines(_, _, _)
cfg_load_lines(m, buf, rest) ==
  LET t   == strtok_r(rest, {"\n"})
      arg == pack(t.tok)
  IN  IF ~t.ok THEN m
      ELSE cfg_load_lines(
             IF arg = "" THEN m
             ELSE cfg_load_arg(m, [buf EXCEPT !.text = arg]),
             buf, t.rest)

cfg_load_buffer(m, buf) == cfg_load_lines(m, buf, buf.text)

-----------------------------------------------------------------------------
(* cfg_load_defaults, cfg_init, cfg_free (lines 255-362).                  *)

\* Defined in cfg.h, taken here from the specification: "a fixed default path".
CFG_DEFAULT_PATH == "/etc/security/pam_u2f.conf"

\* Lines 264-267 with the test of config_path dropped: a missing file is
\* accepted whichever path was asked for.
absent_status_any(config_path) == PAM_SUCCESS

\* Lines 264-267: only the default config file is allowed to be missing.
absent_status(config_path) ==
  IF config_path.kind # "null" THEN PAM_SERVICE_ERR ELSE PAM_SUCCESS

\* cfg_load_defaults without line 280 (buffer = NULL): the exit label frees
\* the buffer the record has just retained.
cfg_load_defaults_frees_buffer(m, f, config_path, flt) ==
  LET w  == open_safely(f, IF config_path.kind # "null" THEN config_path.text
                           ELSE CFG_DEFAULT_PATH, flt.walk)
      s  == slurp(f.meta[w.fdtab[w.outfd].ino].data, w.outsize, flt.slurp)
      bp == [kind |-> "heap", id |-> malloc_id(m.res), text |-> s.buf]
      ld == cfg_load_buffer([cfg |-> m.cfg, res |-> malloc(m.res)], bp)
  IN  IF w.r # PAM_SUCCESS
      THEN [cfg |-> m.cfg, res |-> m.res, walk |-> w, r |-> w.r]
      ELSE IF w.outfd = -1
      THEN [cfg |-> m.cfg, res |-> m.res, walk |-> w,
            r |-> absent_status(config_path)]
      ELSE IF w.outsize = 0
      THEN [cfg |-> m.cfg, res |-> m.res, walk |-> close(w, w.outfd),
            r |-> PAM_SUCCESS]
      ELSE IF s.r # PAM_SUCCESS
      THEN [cfg |-> m.cfg,
            res |-> IF s.r = PAM_SYSTEM_ERR
                    THEN free(malloc(m.res), bp) ELSE m.res,
            walk |-> close(w, w.outfd), r |-> s.r]
      ELSE [cfg |-> [ld.cfg EXCEPT !.defaults_buffer = bp],
            res |-> free(ld.res, bp),
            walk |-> close(w, w.outfd), r |-> PAM_SUCCESS]

\* cfg_load_defaults without the close of line 270: the descriptor of an
\* empty file stays open.
cfg_load_defaults_empty_leaks(m, f, config_path, flt) ==
  LET w  == open_safely(f, IF config_path.kind # "null" THEN config_path.text
                           ELSE CFG_DEFAULT_PATH, flt.walk)
      s  == slurp(f.meta[w.fdtab[w.outfd].ino].data, w.outsize, flt.slurp)
      bp == [kind |-> "heap", id |-> malloc_id(m.res), text |-> s.buf]
      ld == cfg_load_buffer([cfg |-> m.cfg, res |-> malloc(m.res)], bp)
  IN  IF w.r # PAM_SUCCESS
      THEN [cfg |-> m.cfg, res |-> m.res, walk |-> w, r |-> w.r]
      ELSE IF w.outfd = -1
      THEN [cfg |-> m.cfg, res |-> m.res, walk |-> w,
            r |-> absent_status(config_path)]
      ELSE IF w.outsize = 0
      THEN [cfg |-> m.cfg, res |-> m.res, walk |-> w, r |-> PAM_SUCCESS]
      ELSE IF s.r # PAM_SUCCESS
      THEN [cfg |-> m.cfg,
            res |-> IF s.r = PAM_SYSTEM_ERR
                    THEN free(malloc(m.res), bp) ELSE m.res,
            walk |-> close(w, w.outfd), r |-> s.r]
      ELSE [cfg |-> [ld.cfg EXCEPT !.defaults_buffer = bp],
            res |-> free(ld.res, NULL),
            walk |-> close(w, w.outfd), r |-> PAM_SUCCESS]

\* cfg_load_defaults (lines 255-287) on file system f; flt is what the
\* environment fails in open_safely and in slurp. The result carries the
\* record, the resources, the finished walk with the descriptor table, and
\* the status r.
cfg_load_defaults(m, f, config_path, flt) ==
  LET w  == open_safely(f, IF config_path.kind # "null" THEN config_path.text
                           ELSE CFG_DEFAULT_PATH, flt.walk)
      s  == slurp(f.meta[w.fdtab[w.outfd].ino].data, w.outsize, flt.slurp)
      bp == [kind |-> "heap", id |-> malloc_id(m.res), text |-> s.buf]
      ld == cfg_load_buffer([cfg |-> m.cfg, res |-> malloc(m.res)], bp)
  IN  IF w.r # PAM_SUCCESS
      THEN [cfg |-> m.cfg, res |-> m.res, walk |-> w, r |-> w.r]
      ELSE IF w.outfd = -1
      THEN [cfg |-> m.cfg, res |-> m.res, walk |-> w,
            r |-> absent_status(config_path)]
      ELSE IF w.outsize = 0
      THEN [cfg |-> m.cfg, res |-> m.res, walk |-> close(w, w.outfd),
            r |-> PAM_SUCCESS]
      ELSE IF s.r # PAM_SUCCESS
      THEN [cfg |-> m.cfg,
            res |-> IF s.r = PAM_SYSTEM_ERR
                    THEN free(malloc(m.res), bp) ELSE m.res,
            walk |-> close(w, w.outfd), r |-> s.r]
      ELSE [cfg |-> [ld.cfg EXCEPT !.defaults_buffer = bp],
            res |-> free(ld.res, NULL),
            walk |-> close(w, w.outfd), r |-> PAM_SUCCESS]

\* argv[i] as a pointer
ArgPtr(args, i) == [kind |-> "argv", id |-> i, text |-> args[i]]

\* The first loop written like the second: cfg_load_arg applied to every
\* argument but conf=.
RECURSIVE early_scan_all(_, _, _)
early_scan_all(m, args, i) ==
  IF i > Len(args) THEN m
  ELSE early_scan_all(
         IF HasPrefix(args[i], "conf=")
         THEN [m EXCEPT !.config_path = Plus(ArgPtr(args, i), Len("conf="))]
         ELSE LET n == cfg_load_arg([cfg |-> m.cfg, res |-> m.res],
                                    ArgPtr(args, i))
              IN  [m EXCEPT !.cfg = n.cfg, !.res = n.res],
         args, i + 1)

\* cfg_init, lines 303-310: cfg_reset and the first loop over argv. The
\* result carries config_path.
RECURSIVE early_scan(_, _, _)
early_scan(m, args, i) ==
  IF i > Len(args) THEN m
  ELSE early_scan(
         IF HasPrefix(args[i], "conf=")
         THEN [m EXCEPT !.config_path = Plus(ArgPtr(args, i), Len("conf="))]
         ELSE LET n == cfg_load_arg_debug([cfg |-> m.cfg, res |-> m.res],
                                          ArgPtr(args, i))
              IN  [m EXCEPT !.cfg = n.cfg, !.res = n.res],
         args, i + 1)

\* cfg_init_early without the cfg_reset of line 303.
cfg_init_early_no_reset(m, args) ==
  early_scan([cfg |-> m.cfg, res |-> m.res, config_path |-> NULL], args, 1)

cfg_init_early(m, args) ==
  early_scan([cfg |-> cfg_reset(m.cfg), res |-> m.res, config_path |-> NULL],
             args, 1)

\* The second loop passing over the debug_file= arguments, which the first
\* loop has applied already.
RECURSIVE full_scan_skip_sink(_, _, _)
full_scan_skip_sink(m, args, i) ==
  IF i > Len(args) THEN m
  ELSE full_scan_skip_sink(
         IF HasPrefix(args[i], "conf=") \/ HasPrefix(args[i], "debug_file=")
         THEN m
         ELSE cfg_load_arg(m, ArgPtr(args, i)),
         args, i + 1)

\* cfg_init, lines 316-321: the second loop over argv.
RECURSIVE full_scan(_, _, _)
full_scan(m, args, i) ==
  IF i > Len(args) THEN m
  ELSE full_scan(IF HasPrefix(args[i], "conf=") THEN m
                 ELSE cfg_load_arg(m, ArgPtr(args, i)),
                 args, i + 1)

\* The second loop written like the first: only cfg_load_arg_debug is
\* applied to the arguments.
RECURSIVE debug_scan(_, _, _)
debug_scan(m, args, i) ==
  IF i > Len(args) THEN m
  ELSE debug_scan(IF HasPrefix(args[i], "conf=") THEN m
                  ELSE cfg_load_arg_debug(m, ArgPtr(args, i)),
                  args, i + 1)

cfg_init_full_debug_only(m, args) == debug_scan(m, args, 1)

cfg_init_full(m, args) == full_scan(m, args, 1)

\* cfg_free without the cfg_reset of line 361: the record keeps the
\* pointers it released.
cfg_free_no_reset(m) ==
  [cfg |-> m.cfg,
   res |-> free(debug_close(m.res, m.cfg.debug_file), m.cfg.defaults_buffer)]

\* cfg_free (lines 358-362).
cfg_free(m) ==
  [cfg |-> cfg_reset(m.cfg),
   res |-> free(debug_close(m.res, m.cfg.debug_file), m.cfg.defaults_buffer)]

\* cfg_init, lines 323-355: the exit label. The debug_dbg calls write to
\* the sink and change nothing; then the record is released on failure.
\* The exit label without lines 352-353.
cfg_init_exit_no_free(m, r) == m

cfg_init_exit(m, r) == IF r # PAM_SUCCESS THEN cfg_free(m) ELSE m

-----------------------------------------------------------------------------
(* File systems.                                                           *)
(*   inode 0  /                      inode 3  the configuration file      *)
(*   inode 1  /etc                   inode 4  /lnk, a symlink              *)
(*   inode 2  /etc/security          inode 5  another user's directory     *)
(*                                   inode 6  another user's file, in 5    *)

Meta(i, type, uid, wgo, data, target) ==
  [ino |-> i, type |-> type, uid |-> uid, wgo |-> wgo, size |-> Len(data),
   data |-> data, target |-> target]

Dir(i, uid, wgo) == Meta(i, "DIR", uid, wgo, "", -1)
Reg(i, uid, wgo, data) == Meta(i, "REG", uid, wgo, data, -1)
Gone(i) == [NoMeta EXCEPT !.ino = i]

NoEntries == [n \in Names |-> -1]

\* The tree /etc/security/pam_u2f.conf, /lnk -> lt, and inode 5 holding its
\* own pam_u2f.conf (inode 6); an inode of type "NONE" has no entry naming
\* it.
Tree(m0, m1, m2, m3, lt) ==
  LET at(m) == IF m.type = "NONE" THEN -1 ELSE m.ino
  IN  [meta |-> [i \in Inodes |->
                   CASE i = 0 -> m0 [] i = 1 -> m1 [] i = 2 -> m2 [] i = 3 -> m3
                     [] i = 4 -> Meta(4, "LNK", ROOT_UID, FALSE, "", lt)
                     [] i = 5 -> Dir(5, OTHER_UID, FALSE)
                     [] OTHER  -> Reg(6, OTHER_UID, FALSE, "alwaysok")],
       ent  |-> [i \in Inodes |->
                   CASE i = 0 -> [NoEntries EXCEPT !["etc"] = at(m1), !["lnk"] = 4]
                     [] i = 1 -> [NoEntries EXCEPT !["security"] = at(m2)]
                     [] i = 2 -> [NoEntries EXCEPT !["pam_u2f.conf"] = at(m3)]
                     [] i = 5 -> [NoEntries EXCEPT !["pam_u2f.conf"] = 6]
                     [] OTHER  -> NoEntries]]

Owners == {ROOT_UID, OTHER_UID}

RootMetas == {Dir(0, ROOT_UID, FALSE), Dir(0, ROOT_UID, TRUE),
              Dir(0, OTHER_UID, FALSE)}
EtcMetas  == {Dir(1, ROOT_UID, FALSE), Dir(1, ROOT_UID, TRUE), Gone(1)}
SecMetas  == {Dir(2, u, g) : u \in Owners, g \in BOOLEAN} \cup {Gone(2)}
ConfMetas ==
  {Reg(3, u, g, d) : u \in Owners, g \in BOOLEAN, d \in {"", "debug"}}
    \cup {Gone(3), Dir(3, ROOT_UID, FALSE),
          Meta(3, "CHR", ROOT_UID, FALSE, "", -1),
          Meta(3, "LNK", ROOT_UID, FALSE, "", 1)}

WalkFileSystems ==
  {Tree(m0, m1, m2, m3, lt) :
     m0 \in RootMetas, m1 \in EtcMetas, m2 \in SecMetas, m3 \in ConfMetas,
     lt \in {2, -1}}

WalkPaths ==
  {"/etc/security/pam_u2f.conf", "//etc/security//pam_u2f.conf",
   "/lnk/pam_u2f.conf", "/etc/pam_u2f.conf", "/etc/x/pam_u2f.conf",
   "/pam_u2f.conf", "etc/security/pam_u2f.conf", "/etc/security/", ""}

-----------------------------------------------------------------------------
(* Stand-alone walk: open_safely step by step on a fixed file system.      *)

Idle == "n/a"

WalkInit ==
  /\ fs \in WalkFileSystems
  /\ path \in WalkPaths
  /\ walk = WalkStart(path)
  /\ moves = 0
  /\ argv = <<>> /\ cfg = Idle /\ pc = Idle /\ ret = Idle /\ res = Idle
  /\ fault = Idle /\ hist = Idle
  /\ ctype = FALSE /\ pk = Idle /\ sl = Idle

WalkStep ==
  /\ walk.pc # "done"
  /\ \E env \in StepFaults(walk) : walk' = os_step(fs, walk, env)
  /\ UNCHANGED <<ctype, pk, sl>>
  /\ UNCHANGED <<fs, path, moves, argv, cfg, pc, ret, res, fault, hist>>

WalkNext == WalkStep

SpecWalk == WalkInit /\ [][WalkNext]_vars

-----------------------------------------------------------------------------
(* The walk racing with another process that renames, replaces or re-links *)
(* directory entries between the steps of open_safely.                     *)

MaxMoves == 2

RaceFileSystem ==
  Tree(Dir(0, ROOT_UID, FALSE), Dir(1, ROOT_UID, FALSE),
       Dir(2, ROOT_UID, FALSE), Reg(3, ROOT_UID, FALSE, "debug"), 2)

RaceInit ==
  /\ fs = RaceFileSystem
  /\ path \in {"/etc/security/pam_u2f.conf", "/lnk/pam_u2f.conf"}
  /\ walk = WalkStart(path)
  /\ moves = 0
  /\ argv = <<>> /\ cfg = Idle /\ pc = Idle /\ ret = Idle /\ res = Idle
  /\ fault = Idle /\ hist = Idle
  /\ ctype = FALSE /\ pk = Idle /\ sl = Idle

\* rename(2) / unlink(2) / link(2) by the other process: entry n of
\* directory d now names inode t, or nothing (-1).
Relink ==
  /\ moves < MaxMoves
  /\ walk.pc # "done"
  /\ \E d \in {i \in Inodes : fs.meta[i].type = "DIR"},
        n \in {"security", "pam_u2f.conf"},
        t \in {-1, 2, 3, 5, 6} :
       /\ fs.ent[d][n] # t
       /\ fs' = [fs EXCEPT !.ent[d][n] = t]
  /\ moves' = moves + 1
  /\ UNCHANGED <<ctype, pk, sl>>
  /\ UNCHANGED <<path, walk, argv, cfg, pc, ret, res, fault, hist>>

RaceNext == WalkStep \/ Relink

SpecRace == RaceInit /\ [][RaceNext]_vars

-----------------------------------------------------------------------------
(* The caller: cfg_init on an uninitialised record, then cfg_free and      *)
(* cfg_init again, any number of times, with the same arguments, file      *)
(* system and environment.                                                 *)

MaxArgs == 2

ArgPool ==
  {"max_devices=3", "max_devices=7", "max_devices=x7", "userpresence=0",
   "authfile=/a", "debug", "debug_file=/log", "conf=/lnk/pam_u2f.conf"}

ArgVectors == UNION {[1 .. n -> ArgPool] : n \in 0 .. MaxArgs}

FileA == "debug\nmax_devices=5\n"
FileB == "  authfile = /f  # note\nuserpresence=1\nnouserok\n# c\n\nbogus=1\ndebug_file = /flog\n"

RECURSIVE Repeat(_, _)
Repeat(c, n) ==
  IF n = 0 THEN ""
  ELSE IF n % 2 = 1 THEN c \o Repeat(c, n - 1)
  ELSE LET h == Repeat(c, n \div 2) IN h \o h

\* One byte more than slurp accepts: a file of comment.
FileBig == Repeat("#", CFG_MAX_FILE_SIZE + 1)

TrustedTree(m2, m3) ==
  Tree(Dir(0, ROOT_UID, FALSE), Dir(1, ROOT_UID, FALSE), m2, m3, 2)

CfgFileSystems ==
  {TrustedTree(Dir(2, ROOT_UID, FALSE), m3) :
     m3 \in {Gone(3), Reg(3, ROOT_UID, FALSE, FileA),
             Reg(3, ROOT_UID, FALSE, FileB), Reg(3, ROOT_UID, FALSE, ""),
             Reg(3, ROOT_UID, FALSE, FileBig), Reg(3, ROOT_UID, TRUE, FileA)}}
    \cup {TrustedTree(Gone(2), Gone(3))}

NoFault == [walk |-> [at |-> 0, err |-> ""],
            slurp |-> [at |-> 0, err |-> "", max |-> 0]]

Faults ==
  {NoFault,
   [NoFault EXCEPT !.walk = [at |-> 1, err |-> "ENOMEM"]],
   [NoFault EXCEPT !.walk = [at |-> 2, err |-> "EACCES"]],
   [NoFault EXCEPT !.slurp = [at |-> 1, err |-> "ENOMEM", max |-> 0]],
   [NoFault EXCEPT !.slurp = [at |-> 3, err |-> "EIO", max |-> 7]],
   [NoFault EXCEPT !.slurp = [at |-> 0, err |-> "", max |-> 7]]}

\* What an uninitialised cfg_t may hold.
Stale == [kind |-> "heap", id |-> STALE_FD, text |-> "?"]

Garbage ==
  [max_devs |-> 7, manual |-> 1, debug |-> 1, nouserok |-> 1,
   openasuser |-> 1, alwaysok |-> 1, interactive |-> 1, cue |-> 1,
   nodetect |-> 1, expand |-> 1, sshformat |-> 1,
   userpresence |-> 7, userverification |-> 7, pinverification |-> 7,
   auth_file |-> Stale, authpending_file |-> Stale, origin |-> Stale,
   appid |-> Stale, prompt |-> Stale, cue_prompt |-> Stale,
   debug_file |-> [Stale EXCEPT !.kind = "sink"], defaults_buffer |-> Stale]

\* The record with the addresses left out: what two loads can agree on.
PointerFields ==
  {"auth_file", "authpending_file", "origin", "appid", "prompt",
   "cue_prompt", "debug_file", "defaults_buffer"}

View(c) ==
  [k \in DOMAIN c |->
     IF k \in PointerFields THEN [kind |-> c[k].kind, text |-> c[k].text]
     ELSE c[k]]

\* Every file system without an environment failure, and every environment
\* failure on the two file systems whose file is read to its end.
Scenarios ==
  {[fs |-> f, fault |-> NoFault] : f \in CfgFileSystems}
    \cup {[fs |-> TrustedTree(Dir(2, ROOT_UID, FALSE),
                               Reg(3, ROOT_UID, FALSE, t)), fault |-> x] :
             t \in {FileA, FileB}, x \in Faults}

Init ==
  /\ \E s \in Scenarios : fs = s.fs /\ fault = s.fault
  /\ argv \in ArgVectors
  /\ cfg = Garbage
  /\ res = NoResources
  /\ pc = [at |-> "idle", config_path |-> NULL, r |-> PAM_SUCCESS,
           full |-> FALSE, frees |-> 0]
  /\ ret = "none"
  /\ hist = [calls |-> 0, ret1 |-> "none", cfg1 |-> View(Garbage)]
  /\ walk = WalkStart("")
  /\ path = ""
  /\ moves = 0
  /\ ctype = FALSE /\ pk = Idle /\ sl = Idle

\* cfg_init is called: reset and early-argument scan.
CfgInitEarly ==
  /\ \/ pc.at = "idle"
     \/ pc.at = "returned" /\ (ret # PAM_SUCCESS \/ pc.frees > 0)
  /\ LET m == cfg_init_early(
                [cfg |-> cfg,
                 res |-> [res EXCEPT !.mallocs = 0, !.frees = 0,
                                     !.opens = 0, !.closes = 0]], argv)
     IN  /\ cfg' = m.cfg
         /\ res' = m.res
         /\ pc' = [at |-> "scanned", config_path |-> m.config_path,
                   r |-> PAM_SUCCESS, full |-> FALSE, frees |-> 0]
  /\ UNCHANGED <<ctype, pk, sl>>
  /\ UNCHANGED <<fs, path, walk, moves, argv, ret, fault, hist>>

\* cfg_init, line 312: the file load.
CfgLoadDefaults ==
  /\ pc.at = "scanned"
  /\ LET m == cfg_load_defaults([cfg |-> cfg, res |-> res], fs,
                                pc.config_path, fault)
     IN  /\ cfg' = m.cfg
         /\ res' = m.res
         /\ walk' = m.walk
         /\ pc' = [pc EXCEPT !.r = m.r,
                             !.at = IF m.r # PAM_SUCCESS THEN "exit"
                                    ELSE "loaded"]
  /\ UNCHANGED <<ctype, pk, sl>>
  /\ UNCHANGED <<fs, path, moves, argv, ret, fault, hist>>

\* cfg_init, lines 316-321: the full-argument scan.
CfgInitFull ==
  /\ pc.at = "loaded"
  /\ LET m == cfg_init_full([cfg |-> cfg, res |-> res], argv)
     IN  cfg' = m.cfg /\ res' = m.res
  /\ pc' = [pc EXCEPT !.at = "exit", !.full = TRUE]
  /\ UNCHANGED <<ctype, pk, sl>>
  /\ UNCHANGED <<fs, path, walk, moves, argv, ret, fault, hist>>

\* cfg_init, lines 323-355: the exit label and the return.
CfgInitExit ==
  /\ pc.at = "exit"
  /\ LET m == cfg_init_exit([cfg |-> cfg, res |-> res], pc.r)
     IN  /\ cfg' = m.cfg
         /\ res' = m.res
         /\ hist' = IF hist.calls = 0
                    THEN [calls |-> 1, ret1 |-> pc.r, cfg1 |-> View(m.cfg)]
                    ELSE [hist EXCEPT !.calls = 2]
  /\ ret' = pc.r
  /\ pc' = [pc EXCEPT !.at = "returned"]
  /\ UNCHANGED <<ctype, pk, sl>>
  /\ UNCHANGED <<fs, path, walk, moves, argv, fault>>

\* The caller releases the record.
CfgFree ==
  /\ pc.at = "returned"
  /\ LET m == cfg_free([cfg |-> cfg, res |-> res])
     IN  cfg' = m.cfg /\ res' = m.res
  /\ pc' = [pc EXCEPT !.frees = IF @ < 2 THEN @ + 1 ELSE @]
  /\ UNCHANGED <<ctype, pk, sl>>
  /\ UNCHANGED <<fs, path, walk, moves, argv, ret, fault, hist>>

Next ==
  \/ CfgInitEarly
  \/ CfgLoadDefaults
  \/ CfgInitFull
  \/ CfgInitExit
  \/ CfgFree

Spec == Init /\ [][Next]_vars

-----------------------------------------------------------------------------
(* What the claims about open_safely speak of: the path's components and   *)
(* the objects they name in an unchanging file system, resolved            *)
(* independently of the walk.                                              *)

RECURSIVE Components(_)
Components(s) ==
  IF s = "" THEN <<>>
  ELSE IF Head(s) = "/" THEN Components(Tail(s))
  ELSE LET n == strcspn(s, {"/"})
       IN  <<SubSeq(s, 1, n)>> \o Components(From(s, n + 1))

ValidPath(s) == s # "" /\ Ch(s, 1) = "/" /\ Ch(s, Len(s)) # "/"

\* The directories the components before the last name, in order; the
\* sequence ends with -1 where one is missing or is no directory.
RECURSIVE AncestorsFrom(_, _, _)
AncestorsFrom(f, dir, comps) ==
  IF Len(comps) <= 1 THEN <<>>
  ELSE LET t == Follow(f, Lookup(f, dir, Head(comps)), Cardinality(Inodes))
       IN  IF t < 0 \/ f.meta[t].type # "DIR" THEN <<-1>>
           ELSE <<t>> \o AncestorsFrom(f, t, Tail(comps))

Ancestors(f, s) == AncestorsFrom(f, RootIno, Components(s))

AncestorsExist(f, s) == \A k \in DOMAIN Ancestors(f, s) : Ancestors(f, s)[k] # -1

\* The inode the last component names (not following a symlink), -1 when
\* it or an ancestor is missing.
Leaf(f, s) ==
  LET a == Ancestors(f, s)
      c == Components(s)
  IN  IF ~AncestorsExist(f, s) \/ c = <<>> THEN -1
      ELSE Lookup(f, IF a = <<>> THEN RootIno ELSE a[Len(a)], c[Len(c)])

TrustedDir(m) == m.type = "DIR" /\ m.uid = ROOT_UID /\ ~m.wgo
TrustedReg(m) == m.type = "REG" /\ m.uid = ROOT_UID /\ ~m.wgo

AncestorsTrusted(f, s) ==
  \A k \in DOMAIN Ancestors(f, s) :
    Ancestors(f, s)[k] # -1 /\ TrustedDir(f.meta[Ancestors(f, s)[k]])

Returned(w) == w.pc = "done" /\ w.r = PAM_SUCCESS /\ w.outfd \in OpenFds(w)
Absent(w)   == w.pc = "done" /\ w.r = PAM_SUCCESS /\ w.outfd = -1 /\ w.outsize = 0
Failed(w)   == w.pc = "done" /\ w.r # PAM_SUCCESS

\* No descriptor is handed to the caller: none of the walk's descriptors is
\* open and *outfd is -1 or was never assigned.
NoHandle(w) == OpenFds(w) = {} /\ w.outfd \in {-1, STALE_FD}

-----------------------------------------------------------------------------
(* C3: if a directory named by a component before the last is group- or    *)
(* other-writable, open_safely fails with an error and hands out no        *)
(* handle, whatever the target file and the other components are.          *)
C3_WritableAncestorFails ==
  (walk.pc = "done"
     /\ \E k \in DOMAIN Ancestors(fs, path) :
          Ancestors(fs, path)[k] # -1 /\ fs.meta[Ancestors(fs, path)[k]].wgo)
    => Failed(walk) /\ NoHandle(walk)

\* The walk reached a deeper writable directory below a trusted one, above
\* a file that is itself trusted, and stopped there.
C3_Witness ==
  /\ walk.pc = "done" /\ ValidPath(path) /\ ~walk.faulted
  /\ Len(Ancestors(fs, path)) = 2
  /\ TrustedDir(fs.meta[Ancestors(fs, path)[1]])
  /\ Ancestors(fs, path)[2] # -1
  /\ fs.meta[Ancestors(fs, path)[2]].wgo
  /\ fs.meta[Ancestors(fs, path)[2]].uid = ROOT_UID
  /\ Leaf(fs, path) # -1 /\ TrustedReg(fs.meta[Leaf(fs, path)])
  /\ walk.st.wgo /\ walk.r = PAM_SERVICE_ERR

(* C4, as claimed: a handle is returned only if every element the walk     *)
(* went through, the root directory included, meets the trust predicate.   *)
C4_RootIncluded ==
  Returned(walk) =>
    /\ TrustedReg(fs.meta[walk.fdtab[walk.outfd].ino])
    /\ \A d \in walk.used \ {walk.outfd} : TrustedDir(fs.meta[walk.fdtab[d].ino])

(* C4, amended: a handle is returned only if every path component, from    *)
(* the first one below the root down to the leaf file, passed the checks   *)
(* and meets the trust predicate (root-owned, not group/other-writable, a  *)
(* directory resp. a regular file); the descriptor of "/" itself (the      *)
(* first the walk opens) is used without being inspected.                  *)
C4_ComponentsTrusted ==
  Returned(walk) =>
    /\ TrustedReg(fs.meta[walk.fdtab[walk.outfd].ino])
    /\ \A d \in walk.used \ {walk.outfd} :
         d = RootFd(walk)
           \/ (/\ TrustedDir(fs.meta[walk.fdtab[d].ino])
               /\ \E c \in walk.checked : c.fd = d)
    /\ \E c \in walk.checked : c.fd = walk.outfd
    /\ Cardinality(walk.used) = Len(Components(path)) + 1

\* A handle was returned through two checked directories although "/" is
\* group- or other-writable.
C4_Witness ==
  /\ Returned(walk) /\ fs.meta[RootIno].wgo
  /\ Cardinality(walk.checked) = 3

(* C5: for a valid path whose ancestors are all existing trusted           *)
(* directories and whose target is a trusted regular file, open_safely     *)
(* (no system call failing for lack of resources) succeeds, returns an     *)
(* open handle to that file and reports its byte size.                     *)
C5_TrustedPathOpens ==
  (/\ walk.pc = "done" /\ ~walk.faulted
   /\ ValidPath(path) /\ AncestorsTrusted(fs, path)
   /\ Leaf(fs, path) # -1 /\ TrustedReg(fs.meta[Leaf(fs, path)]))
    => /\ Returned(walk)
       /\ walk.outfd # -1
       /\ walk.fdtab[walk.outfd].ino = Leaf(fs, path)
       /\ walk.outsize = fs.meta[Leaf(fs, path)].size
       /\ OpenFds(walk) = {walk.outfd}

\* A non-empty trusted file below two trusted directories was opened.
C5_Witness ==
  /\ walk.pc = "done" /\ ValidPath(path) /\ AncestorsTrusted(fs, path)
  /\ Len(Ancestors(fs, path)) = 2
  /\ Leaf(fs, path) # -1 /\ TrustedReg(fs.meta[Leaf(fs, path)])
  /\ Returned(walk) /\ walk.outsize = 5

(* C7: for the last component, absent (success, outfd = -1, outsize = 0)   *)
(* is reported only when the component does not exist; when it exists but  *)
(* is a symlink, not a regular file, not root-owned or group/other-        *)
(* writable, open_safely fails: no handle, and not absent.                 *)
C7_LeafMismatchFails ==
  (walk.pc = "done" /\ ValidPath(path) /\ AncestorsExist(fs, path))
    => /\ (Leaf(fs, path) # -1 /\ ~TrustedReg(fs.meta[Leaf(fs, path)]))
            => Failed(walk) /\ NoHandle(walk)
       /\ (Absent(walk) => Leaf(fs, path) = -1)

\* The walk got to a leaf that is a symlink, below trusted directories,
\* and failed there.
C7_Witness ==
  /\ walk.pc = "done" /\ ValidPath(path) /\ AncestorsTrusted(fs, path)
  /\ ~walk.faulted /\ Cardinality(walk.checked) = 2
  /\ Leaf(fs, path) # -1 /\ fs.meta[Leaf(fs, path)].type = "LNK"
  /\ walk.r = PAM_SERVICE_ERR /\ walk.outfd = -1

(* C6: every metadata check is made on the open descriptor and the         *)
(* descriptor that was checked is the one used next, so whatever another   *)
(* process re-links between the steps of the walk, every object the walk   *)
(* uses (as the parent of an openat, or as the returned handle) is the     *)
(* object whose metadata was checked; only the descriptor of "/" is used   *)
(* unchecked.                                                              *)
C6_UsedIsChecked ==
  \A d \in walk.used :
    \/ d = RootFd(walk)
    \/ /\ [fd |-> d, ino |-> walk.fdtab[d].ino] \in walk.checked
       /\ fs.meta[walk.fdtab[d].ino].uid = ROOT_UID
       /\ ~fs.meta[walk.fdtab[d].ino].wgo

\* Entries were re-linked during the walk so that the path now leads to
\* another user's file, and the handle returned is still the checked one.
C6_Witness ==
  /\ Returned(walk) /\ moves > 0
  /\ Leaf(fs, path) = 6
  /\ walk.fdtab[walk.outfd].ino = 3
  /\ [fd |-> walk.outfd, ino |-> 3] \in walk.checked


-----------------------------------------------------------------------------
(* What the claims about cfg_init speak of: the settings a list of tokens  *)
(* asks for, read off the tokens themselves.                               *)

NumericKeys == {"max_devices", "userpresence", "userverification",
                "pinverification"}
StringKeys  == {"authfile", "authpending_file", "origin", "appid", "prompt",
                "cue_prompt"}
ValuedKeys  == NumericKeys \cup StringKeys
FlagKeys    == {"debug", "manual", "nouserok", "openasuser", "alwaysok",
                "interactive", "cue", "nodetect", "expand", "sshformat"}

FieldOf(k) ==
  CASE k = "max_devices" -> "max_devs"
    [] k = "authfile"    -> "auth_file"
    [] OTHER             -> k

\* The text after "key=" in token t.
ValueOf(t, k) == From(t, Len(k) + 2)

\* Token t sets key k: it reads key=value, and for a numeric key the
\* value is a number.
Sets(t, k) ==
  /\ HasPrefix(t, k \o "=")
  /\ k \in NumericKeys => ScanInteger(ValueOf(t, k)).ok

\* The position of the last token that sets k, 0 when none does.
LastSetter(tokens, k) ==
  IF \E i \in DOMAIN tokens : Sets(tokens[i], k)
  THEN CHOOSE i \in DOMAIN tokens :
         Sets(tokens[i], k) /\ \A j \in DOMAIN tokens : Sets(tokens[j], k) => j <= i
  ELSE 0

\* The path the load reads: the last conf= argument's, else the default.
RequestedPath(args) ==
  LET i == LastSetter(args, "conf")
  IN  IF i = 0 THEN CFG_DEFAULT_PATH ELSE ValueOf(args[i], "conf")

\* The text of the file at that path, "" when there is none.
FileText(f, args) ==
  LET l == Leaf(f, RequestedPath(args))
  IN  IF l = -1 THEN "" ELSE f.meta[l].data

\* The tokens of the file's lines.
RECURSIVE FileTokens(_)
FileTokens(text) ==
  LET t == strtok_r(text, {"\n"})
  IN  IF ~t.ok THEN <<>> ELSE <<pack(t.tok)>> \o FileTokens(t.rest)

\* The value field k must hold once tokens `file` and then `args` were
\* merged into a reset record whose file buffer is buffer `bufid`.
Merged(k, args, file, bufid) ==
  LET a == LastSetter(args, k)
      l == LastSetter(file, k)
  IN  IF a # 0
      THEN IF k \in NumericKeys THEN ScanInteger(ValueOf(args[a], k)).val
           ELSE [kind |-> "argv", id |-> a, text |-> ValueOf(args[a], k)]
      ELSE IF l # 0
      THEN IF k \in NumericKeys THEN ScanInteger(ValueOf(file[l], k)).val
           ELSE [kind |-> "heap", id |-> bufid, text |-> ValueOf(file[l], k)]
      ELSE ResetRecord[FieldOf(k)]

Flag(k, tokens) == IF \E i \in DOMAIN tokens : tokens[i] = k THEN 1 ELSE 0

SinkPath(args) ==
  LET i == LastSetter(args, "debug_file")
  IN  IF i = 0 THEN DEFAULT_DEBUG_FILE.text ELSE ValueOf(args[i], "debug_file")

LoadReturned == pc.at = "returned" /\ pc.frees = 0

-----------------------------------------------------------------------------
(* C1: after a successful cfg_init every valued setting that a well-formed *)
(* invocation argument sets holds the value of the last such argument,     *)
(* whatever the file contains; a value of the file is kept only when no    *)
(* argument sets the key (and the reset value when neither does).          *)
C1_ArgumentsOverrideFile ==
  (LoadReturned /\ ret = PAM_SUCCESS) =>
    \A k \in ValuedKeys :
      cfg[FieldOf(k)] =
        Merged(k, argv, FileTokens(FileText(fs, argv)), cfg.defaults_buffer.id)

\* The file sets max_devices, the arguments set it twice: the last
\* argument won, and the file's debug flag stayed.
C1_Witness ==
  /\ LoadReturned /\ ret = PAM_SUCCESS
  /\ argv = <<"max_devices=3", "max_devices=7">>
  /\ FileText(fs, argv) = FileA
  /\ cfg.defaults_buffer.kind = "heap"
  /\ cfg.max_devs = 7 /\ cfg.debug = 1

(* C2: when open_safely reports the file or an ancestor absent, cfg_init   *)
(* succeeds if no conf= argument was given, and the record is then the     *)
(* reset record with the invocation arguments applied and no file buffer;  *)
(* with a conf= argument cfg_init fails.                                   *)
C2_AbsentDefaultOnly ==
  (LoadReturned /\ Absent(walk)) =>
    IF LastSetter(argv, "conf") = 0
    THEN /\ ret = PAM_SUCCESS
         /\ cfg.defaults_buffer = NULL
         /\ \A k \in ValuedKeys :
              cfg[FieldOf(k)] = Merged(k, argv, <<>>, 0)
         /\ \A k \in FlagKeys : cfg[k] = Flag(k, argv)
         /\ cfg.debug_file.text = SinkPath(argv)
    ELSE ret # PAM_SUCCESS

\* The default path was absent below two existing directories and an
\* argument was applied.
C2_Witness ==
  /\ LoadReturned /\ Absent(walk)
  /\ LastSetter(argv, "conf") = 0 /\ ret = PAM_SUCCESS
  /\ cfg.auth_file.kind = "argv" /\ Len(walk.fdtab) = 3

\* The record is released: reset, nothing held, nothing released twice.
Released(c, r) ==
  /\ c = ResetRecord
  /\ r.heap = {} /\ r.sinks = {}
  /\ ~r.badfree /\ ~r.badclose

(* C8: whenever cfg_init returns an error the full-argument scan did not   *)
(* run, every resource acquired is released (early sink closed, no buffer  *)
(* retained, every descriptor closed) and the record is in the reset       *)
(* state.                                                                  *)
C8_FailureReleasesAll ==
  (pc.at = "returned" /\ ret # PAM_SUCCESS) =>
    /\ ~pc.full
    /\ Released(cfg, res)
    /\ res.opens = res.closes /\ res.mallocs = res.frees
    /\ OpenFds(walk) = {} /\ ~walk.badclose

\* A read failed after the early scan had opened a sink and set the debug
\* flag, and after the buffer had been allocated.
C8_Witness ==
  /\ LoadReturned /\ ret = PAM_SYSTEM_ERR
  /\ res.opens = 1 /\ res.closes = 1 /\ res.mallocs = 1 /\ res.frees = 1
  /\ \E i \in DOMAIN argv : argv[i] = "debug"
  /\ cfg = ResetRecord

(* C9: cfg_free leaves the record released (reset, nothing held) whatever  *)
(* state it is called in after a load, and a cfg_free on a record that is  *)
(* already released (by an earlier cfg_free, or by a failed cfg_init)      *)
(* changes nothing and releases nothing again.                             *)
C9_FreeIdempotent ==
  [][(pc.at = "returned" /\ pc'.at = "returned")
       => /\ Released(cfg', res')
          /\ (pc.frees > 0 \/ ret # PAM_SUCCESS)
               => (cfg' = cfg /\ res' = res)]_vars

\* A loaded record holding a buffer and a sink was released, then
\* released again.
C9_Witness ==
  /\ pc.at = "returned" /\ pc.frees = 2 /\ ret = PAM_SUCCESS
  /\ res.mallocs = 1 /\ res.frees = 1 /\ res.opens = 2 /\ res.closes = 2
  /\ Released(cfg, res)

(* C10: cfg_init, cfg_free, cfg_init with the same arguments, file system  *)
(* and environment returns the same status and an equal record (addresses  *)
(* aside) as the first cfg_init, which ran on an uninitialised record.     *)
C10_ReloadSameResult ==
  (pc.at = "returned" /\ pc.frees = 0 /\ hist.calls = 2) =>
    /\ ret = hist.ret1
    /\ View(cfg) = hist.cfg1

\* A second load that read the file and applied an argument.
C10_Witness ==
  /\ pc.at = "returned" /\ pc.frees = 0 /\ hist.calls = 2
  /\ ret = PAM_SUCCESS
  /\ cfg.defaults_buffer.kind = "heap" /\ cfg.max_devs = 3 /\ cfg.debug = 1
  /\ cfg.manual = 0

-----------------------------------------------------------------------------
\* The load got a handle to a file whose size is above the limit.
Oversize ==
  /\ LoadReturned /\ walk.pc = "done" /\ walk.r = PAM_SUCCESS
  /\ walk.outfd \notin {-1, STALE_FD}
  /\ walk.outsize > CFG_MAX_FILE_SIZE

\* slurp as cfg_load_defaults called it in this load.
SlurpOfLoad ==
  slurp(fs.meta[walk.fdtab[walk.outfd].ino].data, walk.outsize, fault.slurp)

-----------------------------------------------------------------------------
(* Stand-alone pack: one line of the file through pack, as cfg_load_buffer *)
(* calls it (lines 244-251), and the token through pack once more.         *)

MaxLine == 4

PackAlphabet == {" ", "\t", "a", "=", "#"} \cup HighBytes

\* The strings of at most n characters of the alphabet.
RECURSIVE Lines(_)
Lines(n) ==
  IF n = 0 THEN {""}
  ELSE LET p == Lines(n - 1)
       IN  p \cup {s \o c : s \in p, c \in PackAlphabet}

\* The file holds a line, and the build is one or the other.
PackInit ==
  /\ \E l \in Lines(MaxLine) :
       pk = [at |-> "line", line |-> l, tok |-> "", skipped |-> FALSE,
             again |-> ""]
  /\ ctype \in BOOLEAN
  /\ fs = Idle /\ path = Idle /\ walk = Idle /\ moves = 0
  /\ argv = <<>> /\ cfg = Idle /\ pc = Idle /\ ret = Idle /\ res = Idle
  /\ fault = Idle /\ hist = Idle /\ sl = Idle

\* Lines 247-249: arg = pack(buf), and the test that skips an empty token.
PackLine ==
  /\ pk.at = "line"
  /\ pk' = [pk EXCEPT !.at = "packed", !.tok = pack(pk.line),
                      !.skipped = (pack(pk.line) = "")]
  /\ UNCHANGED <<fs, path, walk, moves, argv, cfg, pc, ret, res, fault, hist,
                 ctype, sl>>

\* pack applied to a token.
PackAgain ==
  /\ pk.at = "packed"
  /\ pk' = [pk EXCEPT !.at = "repacked", !.again = pack(pk.tok)]
  /\ UNCHANGED <<fs, path, walk, moves, argv, cfg, pc, ret, res, fault, hist,
                 ctype, sl>>

PackNext == PackLine \/ PackAgain

SpecPack == PackInit /\ [][PackNext]_vars

-----------------------------------------------------------------------------
(* The canonical token of a line, as the file syntax defines it: the text  *)
(* before the first '#', without the whitespace at its ends and around the *)
(* first '='. Written without ltrim, rtrim and pack.                       *)

\* The position of the first c in s, Len(s) + 1 when there is none.
FirstIndex(s, c) ==
  IF \E i \in 1 .. Len(s) : Ch(s, i) = c
  THEN CHOOSE i \in 1 .. Len(s) :
         Ch(s, i) = c /\ \A j \in 1 .. i - 1 : Ch(s, j) # c
  ELSE Len(s) + 1

\* s without the whitespace at its ends.
Trim(s) ==
  LET ink == {i \in 1 .. Len(s) : Ch(s, i) \notin Space}
  IN  IF ink = {} THEN ""
      ELSE SubSeq(s, CHOOSE i \in ink : \A j \in ink : i <= j,
                     CHOOSE i \in ink : \A j \in ink : j <= i)

Canonical(line) ==
  LET t == Trim(SubSeq(line, 1, FirstIndex(line, "#") - 1))
      e == FirstIndex(t, "=")
  IN  IF e > Len(t) THEN t
      ELSE Trim(SubSeq(t, 1, e - 1)) \o "=" \o Trim(SubSeq(t, e + 1, Len(t)))

HasHighByte(s) == \E i \in 1 .. Len(s) : Ch(s, i) \in HighBytes

(* C12, as claimed: pack maps every line to its canonical token (cut at    *)
(* the first '#', whitespace removed at both ends and around the first     *)
(* '='), the caller skips an empty token, and pack of a token returns the  *)
(* token.                                                                  *)
C12_PackIsCanonical ==
  /\ pk.at \in {"packed", "repacked"} =>
       pk.tok = Canonical(pk.line) /\ (pk.skipped <=> Canonical(pk.line) = "")
  /\ pk.at = "repacked" => pk.again = pk.tok

(* C12 for the lines rtrim is defined on: when the line holds no byte      *)
(* above 0x7f, or the build's isspace takes none of them for whitespace,   *)
(* pack returns the canonical token and pack of a token returns the token. *)
C12_PackOfPlainLine ==
  (~HasHighByte(pk.line) \/ ~ctype) =>
    /\ pk.at \in {"packed", "repacked"} =>
         pk.tok = Canonical(pk.line) /\ (pk.skipped <=> Canonical(pk.line) = "")
    /\ pk.at = "repacked" => pk.again = pk.tok

\* A line with whitespace around its '=' was packed, and packed again.
C12_Witness ==
  /\ pk.at = "repacked" /\ pk.line = "a =a"
  /\ pk.tok = "a=a" /\ pk.again = "a=a"

-----------------------------------------------------------------------------
(* Stand-alone cfg_load_arg: tokens applied one after the other to a       *)
(* record that is reset, or that a file load has filled.                   *)

MaxApply == 2

TokenPool ==
  {"bogus", "bogus=1", "manual=1", "debug=1", "debug_file", "max_devices",
   "conf=/x", "=x", "Manual", "authfile =/a",
   "max_devices=x", "userpresence=", "userverification=-",
   "pinverification=y2",
   "manual", "max_devices=3", "userpresence=1", "authfile=/a",
   "debug_file=/log"}

\* A record after cfg_load_defaults read a file: it retains the buffer and
\* a field refers into it.
LoadedMachine ==
  LET bp == [kind |-> "heap", id |-> malloc_id(NoResources), text |-> FileB]
      ld == cfg_load_buffer([cfg |-> ResetRecord,
                             res |-> malloc(NoResources)], bp)
  IN  [ld EXCEPT !.cfg.defaults_buffer = bp]

ArgInit ==
  /\ \E m \in {[cfg |-> ResetRecord, res |-> NoResources], LoadedMachine} :
       cfg = m.cfg /\ res = m.res
  /\ argv = <<>>
  /\ fs = Idle /\ path = Idle /\ walk = Idle /\ moves = 0
  /\ pc = Idle /\ ret = Idle /\ fault = Idle /\ hist = Idle
  /\ ctype = FALSE /\ pk = Idle /\ sl = Idle

\* cfg_load_arg(cfg, t) for the next token t.
ArgApply ==
  /\ Len(argv) < MaxApply
  /\ \E t \in TokenPool :
       /\ argv' = Append(argv, t)
       /\ LET m == cfg_load_arg([cfg |-> cfg, res |-> res],
                                ArgPtr(argv', Len(argv')))
          IN  cfg' = m.cfg /\ res' = m.res
  /\ UNCHANGED <<fs, path, walk, moves, pc, ret, fault, hist, ctype, pk, sl>>

ArgNext == ArgApply

SpecArg == ArgInit /\ [][ArgNext]_vars

\* The token just applied.
Applied == argv'[Len(argv')]

\* Token t is one of the recognized ones: a flag name, or a key with its
\* '='.
Recognized(t) ==
  \/ t \in FlagKeys
  \/ \E k \in ValuedKeys \cup {"debug_file"} : HasPrefix(t, k \o "=")

\* Text v starts with no number: after the white space and an optional
\* sign there is no digit.
NoNumber(v) ==
  LET ink == {i \in 1 .. Len(v) : Ch(v, i) \notin Space}
      i   == IF ink = {} THEN Len(v) + 1
             ELSE CHOOSE a \in ink : \A b \in ink : a <= b
      j   == IF i <= Len(v) /\ Ch(v, i) \in {"+", "-"} THEN i + 1 ELSE i
  IN  j > Len(v) \/ ~IsDigit(Ch(v, j))

(* C13: cfg_load_arg applied to an unrecognized token (an unknown key, a   *)
(* flag name followed by '=...', a key without its '=', a conf= entry)     *)
(* leaves every field of the record, the debug sink, the retained buffer   *)
(* and the resources unchanged.                                            *)
C13_UnrecognizedIgnored ==
  [][(Len(argv') = Len(argv) + 1 /\ ~Recognized(Applied))
       => cfg' = cfg /\ res' = res]_vars

\* "debug=1" was applied to a record that retains a buffer and in which the
\* debug flag was not set; an earlier token had replaced the file's sink.
C13_Witness ==
  /\ argv = <<"debug_file=/log", "debug=1">>
  /\ cfg.debug = 0 /\ cfg.debug_file.text = "/log"
  /\ cfg.defaults_buffer.kind = "heap" /\ cfg.auth_file.kind = "heap"
  /\ res.opens = 2 /\ res.closes = 1

(* C14: a max_devices=, userpresence=, userverification= or                *)
(* pinverification= token whose value starts with no number changes        *)
(* nothing: the field keeps the value it had (the reset value or the one   *)
(* an earlier token set) and no other field or resource changes.           *)
C14_MalformedNumberKept ==
  [][(/\ Len(argv') = Len(argv) + 1
      /\ \E k \in NumericKeys :
           HasPrefix(Applied, k \o "=") /\ NoNumber(ValueOf(Applied, k)))
       => cfg' = cfg /\ res' = res]_vars

\* max_devices was set to 3 and a malformed max_devices= token came after.
C14_Witness ==
  /\ argv = <<"max_devices=3", "max_devices=x">>
  /\ cfg.max_devs = 3

-----------------------------------------------------------------------------
\* The number of debug_file= entries among the tokens.
SinkEntries(tokens) ==
  Cardinality({i \in DOMAIN tokens : HasPrefix(tokens[i], "debug_file=")})

\* The tokens of the file this load applied: none when it failed, the
\* file being read in full or not at all.
FileApplied ==
  IF ret = PAM_SUCCESS THEN FileTokens(FileText(fs, argv)) ELSE <<>>

(* C15, as claimed: during one cfg_init the number of sink opens equals    *)
(* the number of debug_file= entries of the invocation arguments plus the  *)
(* number of those of the configuration file.                              *)
C15_OneOpenPerEntry ==
  LoadReturned => res.opens = SinkEntries(argv) + SinkEntries(FileApplied)

(* C15, amended: both loops over the arguments apply debug_file=, so a     *)
(* successful cfg_init opens a sink twice for every debug_file= argument   *)
(* and once for every debug_file= line of the file, and a failed one once  *)
(* for every debug_file= argument; every replacement closes the sink it    *)
(* replaces (the default sink excepted) before it opens the new one, so at *)
(* most one sink is open at any time and none is closed twice.             *)
C15_ArgumentSinksOpenedTwice ==
  /\ Cardinality(res.sinks) <= 1 /\ ~res.badclose
  /\ LoadReturned =>
       /\ res.opens = IF ret = PAM_SUCCESS
                      THEN 2 * SinkEntries(argv) + SinkEntries(FileApplied)
                      ELSE SinkEntries(argv)
       /\ res.closes = res.opens - Cardinality(res.sinks)

\* A successful load with one debug_file= argument and one debug_file=
\* line in the file: three opens, two closes.
C15_Witness ==
  /\ LoadReturned /\ ret = PAM_SUCCESS
  /\ SinkEntries(argv) = 1 /\ SinkEntries(FileApplied) = 1
  /\ res.opens = 3 /\ res.closes = 2
  /\ cfg.debug_file.text = "/log"

-----------------------------------------------------------------------------
(* C16: when the file load starts, the first loop has gone through all     *)
(* the arguments and applied the debug flag and the debug sink only: the   *)
(* debug flag is set iff debug is among the arguments, the sink is that of *)
(* the last debug_file= argument, config_path is that of the last conf=    *)
(* argument, and every other field holds its reset value; nothing of the   *)
(* file load (no allocation) has happened yet.                             *)
C16_EarlyScanDebugOnly ==
  pc.at = "scanned" =>
    /\ [cfg EXCEPT !.debug = 0, !.debug_file = DEFAULT_DEBUG_FILE]
         = ResetRecord
    /\ cfg.debug = Flag("debug", argv)
    /\ cfg.debug_file.text = SinkPath(argv)
    /\ res.opens = SinkEntries(argv)
    /\ pc.config_path =
         (IF LastSetter(argv, "conf") = 0 THEN NULL
          ELSE Plus(ArgPtr(argv, LastSetter(argv, "conf")), Len("conf=")))
    /\ res.mallocs = 0 /\ ~pc.full

\* The file load is about to start after the arguments debug and
\* max_devices=3: the flag is set, max_devs is not.
C16_Witness ==
  /\ pc.at = "scanned" /\ argv = <<"debug", "max_devices=3">>
  /\ cfg.debug = 1 /\ cfg.max_devs = 0

-----------------------------------------------------------------------------
(* C17: open_safely never has more than two descriptors of its own open,   *)
(* closes none that is not open (no second close), and when it returns,    *)
(* on whatever path, none of the descriptors it opened is open except the  *)
(* handle it returns on success.                                           *)
C17_WalkDescriptorsClosed ==
  /\ ~walk.badclose
  /\ Cardinality(OpenFds(walk)) <= 2 /\ walk.maxopen <= 2
  /\ walk.pc = "done" =>
       OpenFds(walk) = IF walk.r = PAM_SUCCESS /\ walk.outfd # -1
                       THEN {walk.outfd} ELSE {}

\* A call failed in the walk after "/" and two directories had been
\* opened: two descriptors were open at once, and none is left.
C17_Witness ==
  /\ walk.pc = "done" /\ walk.faulted /\ walk.r = PAM_SERVICE_ERR
  /\ Len(walk.fdtab) = 3 /\ walk.maxopen = 2
  /\ OpenFds(walk) = {}

-----------------------------------------------------------------------------
(* Stand-alone slurp: the reader step by step, on a descriptor whose file  *)
(* may be shorter or longer than the size fstat reported, every read       *)
(* returning -1, or any number of bytes up to what was asked for.          *)

MaxSize == 4

\* The sizes reported and the contents read: every small size with every
\* content up to one byte more, and the sizes at the limit.
SlurpFiles ==
  {[size |-> n, data |-> SubSeq("abcdefgh", 1, k)] :
     n \in 0 .. MaxSize, k \in 0 .. MaxSize + 1}
    \cup {[size |-> n, data |-> d] :
            n \in {CFG_MAX_FILE_SIZE, CFG_MAX_FILE_SIZE + 1},
            d \in {SubSeq(FileBig, 1, CFG_MAX_FILE_SIZE), FileBig, FileA}}

\* What the environment may do to the next step: fail the malloc, fail the
\* read, or return at most max bytes (0: all that is asked for). A read of
\* the large files returns all that is asked for or half the limit.
SlurpEnvs(s) ==
  CASE s.pc = "begin" -> {NoEnv, [NoEnv EXCEPT !.err = "ENOMEM"]}
    [] s.pc = "loop"  ->
         {[err |-> e, max |-> m] :
            e \in {"", "EIO"},
            m \in IF s.to_read + s.off > MaxSize + 1
                  THEN {0, CFG_MAX_FILE_SIZE \div 2} ELSE 0 .. MaxSize}
    [] OTHER          -> {NoEnv}

SlurpInit ==
  /\ \E f \in SlurpFiles :
       sl = [run |-> SlurpStart(f.size), size |-> f.size, data |-> f.data,
             nomem |-> FALSE, neg |-> FALSE]
  /\ fs = Idle /\ path = Idle /\ walk = Idle /\ moves = 0
  /\ argv = <<>> /\ cfg = Idle /\ pc = Idle /\ ret = Idle /\ res = Idle
  /\ fault = Idle /\ hist = Idle /\ ctype = FALSE /\ pk = Idle

\* One step of slurp; nomem and neg record that malloc returned NULL and
\* that a read returned a negative result.
SlurpStep ==
  /\ sl.run.pc # "done"
  /\ \E env \in SlurpEnvs(sl.run) :
       sl' = [sl EXCEPT
                !.run = sl_step(sl.run, sl.data, env),
                !.nomem = @ \/ (/\ sl.run.pc = "begin"
                                /\ sl.size <= CFG_MAX_FILE_SIZE
                                /\ env.err = "ENOMEM"),
                !.neg = @ \/ (/\ sl.run.pc = "loop" /\ sl.run.to_read > 0
                              /\ env.err = "EIO")]
  /\ UNCHANGED <<fs, path, walk, moves, argv, cfg, pc, ret, res, fault, hist,
                 ctype, pk>>

SlurpNext == SlurpStep

\* slurp is sequential code: its next step is taken.
SpecSlurp == SlurpInit /\ [][SlurpNext]_vars /\ WF_vars(SlurpNext)

\* What slurp keeps true for a size up to the maximum: to_read never goes
\* below zero, nothing is written outside the size + 1 bytes allocated, at
\* most size + 1 reads are issued, and at the return a negative read has
\* given PAM_SYSTEM_ERR with the buffer freed, otherwise (malloc failure
\* aside) the result is PAM_SUCCESS and the bytes read, at most size, with
\* the terminator behind them.
SlurpSafe ==
  sl.size <= CFG_MAX_FILE_SIZE =>
    /\ sl.run.to_read >= 0 /\ ~sl.run.overrun
    /\ sl.run.reads <= sl.size + 1
    /\ Len(sl.run.buf) + sl.run.to_read = sl.size \/ sl.run.r = PAM_SYSTEM_ERR
    /\ sl.run.pc = "done" =>
         IF sl.neg
         THEN sl.run.r = PAM_SYSTEM_ERR /\ sl.run.alloc = 0 /\ ~sl.run.dst
         ELSE IF sl.nomem
         THEN sl.run.r = PAM_BUF_ERR /\ sl.run.alloc = 0 /\ ~sl.run.dst
         ELSE /\ sl.run.r = PAM_SUCCESS /\ sl.run.dst
              /\ sl.run.alloc = sl.size + 1
              /\ Len(sl.run.buf) <= sl.size
              /\ sl.run.buf = SubSeq(sl.data, 1, Len(sl.run.buf))

(* C18: for every size up to CFG_MAX_FILE_SIZE and every sequence of read  *)
(* results slurp returns after at most size + 1 reads; a negative read     *)
(* result gives PAM_SYSTEM_ERR and frees the buffer; otherwise slurp       *)
(* succeeds, an early end of data included, with the bytes read (at most   *)
(* size) and one terminator behind them, no write going outside the        *)
(* size + 1 bytes allocated and to_read never going below zero.            *)
C18_SlurpReturnsInBounds ==
  []SlurpSafe /\ <>(sl.run.pc = "done")

\* The file ended early: three reads (two bytes, one byte, end of data) of
\* a file reported as four bytes long, and success with three bytes.
C18_Witness ==
  /\ sl.run.pc = "done" /\ sl.size = 4 /\ sl.run.r = PAM_SUCCESS
  /\ sl.run.reads = 3 /\ sl.run.buf = "abc" /\ sl.run.to_read = 1

-----------------------------------------------------------------------------
StringFields ==
  {"auth_file", "authpending_file", "origin", "appid", "prompt",
   "cue_prompt"}

\* Pointer p refers into memory that is live: an invocation argument, or
\* the buffer the record retains, not freed.
Live(p) ==
  \/ p.kind = "argv" /\ p.id \in DOMAIN argv
  \/ /\ p.kind = "heap" /\ p.id \in res.heap
     /\ cfg.defaults_buffer.kind = "heap" /\ cfg.defaults_buffer.id = p.id

(* C19: from the cfg_reset of the first cfg_init on, every string field is *)
(* absent or refers into an invocation argument or into the buffer the     *)
(* record retains as defaults_buffer, which is allocated and not freed;    *)
(* the retained buffer itself is live, no buffer is freed twice, and after *)
(* a cfg_free or a failed cfg_init, which free the buffer, every field is  *)
(* absent.                                                                 *)
C19_StringFieldsLive ==
  pc.at # "idle" =>
    /\ \A f \in StringFields : cfg[f] = NULL \/ Live(cfg[f])
    /\ cfg.defaults_buffer = NULL \/ Live(cfg.defaults_buffer)
    /\ ~res.badfree
    /\ (pc.at = "returned" /\ (pc.frees > 0 \/ ret # PAM_SUCCESS)) =>
         /\ res.heap = {}
         /\ \A f \in StringFields : cfg[f] = NULL

\* A loaded record with a field that refers into the retained buffer.
C19_Witness ==
  /\ LoadReturned /\ ret = PAM_SUCCESS
  /\ cfg.defaults_buffer.kind = "heap"
  /\ \E f \in StringFields : cfg[f].kind = "heap" /\ Live(cfg[f])
  /\ res.mallocs = 1 /\ res.frees = 0

-----------------------------------------------------------------------------
(* C20: over every sequence of cfg_init and cfg_free in which a successful *)
(* cfg_init is followed by a cfg_free before the next cfg_init, nothing is *)
(* released twice, the configuration descriptor is closed when             *)
(* cfg_load_defaults returns (on every path), and once the record has been *)
(* released (by cfg_free, or by a failed cfg_init) every buffer allocated  *)
(* was freed once, every sink opened was closed once and nothing is held.  *)
C20_ResourceBalance ==
  pc.at # "idle" =>
    /\ ~res.badfree /\ ~res.badclose /\ ~walk.badclose
    /\ pc.at \in {"loaded", "exit", "returned"} => OpenFds(walk) = {}
    /\ Cardinality(res.heap) = res.mallocs - res.frees
    /\ Cardinality(res.sinks) = res.opens - res.closes
    /\ (pc.at = "returned" /\ (pc.frees > 0 \/ ret # PAM_SUCCESS)) =>
         /\ res.heap = {} /\ res.sinks = {}
         /\ res.mallocs = res.frees /\ res.opens = res.closes

\* The second successful load of a file (a buffer, three sinks, four
\* descriptors) was released.
C20_Witness ==
  /\ pc.at = "returned" /\ pc.frees = 1 /\ hist.calls = 2
  /\ ret = PAM_SUCCESS
  /\ res.mallocs = 1 /\ res.frees = 1 /\ res.opens = 3 /\ res.closes = 3
  /\ Len(walk.fdtab) = 4 /\ OpenFds(walk) = {}
  /\ res.heap = {} /\ res.sinks = {}

====
